---------------------------- MODULE Spec2Model ----------------------------
(***************************************************************************)
(* Model of get_subtitles.py: the interactive run of main() and the pure   *)
(* text functions it is built from.  Strings are sequences of one-         *)
(* character strings, so that regular-expression matching, trimming,       *)
(* splitting and number formatting are computed character by character.    *)
(***************************************************************************)
EXTENDS Integers, Sequences, FiniteSets, TLC

VARIABLES
    \* ---- main() ----
    pc,               \* position of main(): "url", "title", "langs", "ask", "fetch", "save", "done"
    url,              \* main: url (the last line read at the URL prompt, stripped)
    video_id,         \* main: video_id (an extract_video_id result)
    video_title,      \* main: video_title
    languages,        \* main: languages (keys of the dict, in insertion order)
    lang_input,       \* main: lang_input (the line read at the language prompt, stripped)
    requested_languages, \* main: requested_languages
    fetch_i,          \* fetch_transcripts: index of the next lang_code of the for loop
    transcripts,      \* fetch_transcripts/main: transcripts, a dict in insertion order
    save_i,           \* main: index of the next item of transcripts.items()
    total_segments,   \* main: total_segments
    files,            \* the working directory: the set of files written, [name, content]
    calls,            \* the remote calls made so far, in order
    stdout,           \* the lines printed so far (those that tell the outcome of a step)
    prompts,          \* number of times the URL prompt has been answered
    exit_code,        \* process exit code: -1 while running, 0 or 1 at the end
    \* ---- one call of a pure function: its arguments and its return value ----
    extract,          \* extract_video_id: [url, ret, returned]
    stamp,            \* format_timestamp: [seconds, ret, returned]
    fname,            \* create_filename_from_title: [title, video_id, language_code, file_type, ret, returned]
    stamped,          \* create_timestamped_transcript: [transcript, ret, returned]
    prose             \* create_prose_transcript: [transcript, ret, returned]

mainVars == <<pc, url, video_id, video_title, languages, lang_input, requested_languages, fetch_i,
              transcripts, save_i, total_segments, files, calls, stdout, prompts, exit_code>>
pureVars == <<extract, stamp, fname, stamped, prose>>
vars == <<mainVars, pureVars>>

---------------------------------------------------------------------------
\* Characters and character classes

Lower == <<"a","b","c","d","e","f","g","h","i","j","k","l","m",
           "n","o","p","q","r","s","t","u","v","w","x","y","z">>
Upper == <<"A","B","C","D","E","F","G","H","I","J","K","L","M",
           "N","O","P","Q","R","S","T","U","V","W","X","Y","Z">>
DigitChars == <<"0","1","2","3","4","5","6","7","8","9">>

Range(s) == {s[i] : i \in DOMAIN s}

\* Python's \s (ASCII part) and str.strip()'s default set
IsSpace(c) == c \in {" ", "\t", "\n", "\r"}

\* the alphanumeric characters
UpperChars == Range(Upper)
AlnumChars == Range(Lower) \cup Range(Upper) \cup Range(DigitChars)
IsAlnum(c) == c \in AlnumChars

\* Python's \w: alphanumeric or underscore
IsWordChar(c) == IsAlnum(c) \/ c = "_"

\* str.lower() on one character
LowerChar(c) ==
    IF c \in UpperChars
    THEN Lower[CHOOSE i \in DOMAIN Upper : Upper[i] = c]
    ELSE c

\* str.lower()
lower(s) == [i \in DOMAIN s |-> LowerChar(s[i])]

\* str.strip(): drop leading and trailing whitespace
RECURSIVE lstrip(_)
lstrip(s) == IF s # <<>> /\ IsSpace(Head(s)) THEN lstrip(Tail(s)) ELSE s
RECURSIVE rstrip(_)
rstrip(s) ==
    IF s # <<>> /\ IsSpace(s[Len(s)]) THEN rstrip(SubSeq(s, 1, Len(s) - 1)) ELSE s
strip(s) == rstrip(lstrip(s))

\* sep.join(parts)
RECURSIVE join(_, _)
join(sep, parts) ==
    IF parts = <<>> THEN <<>>
    ELSE IF Len(parts) = 1 THEN parts[1]
    ELSE parts[1] \o sep \o join(sep, Tail(parts))

\* s.split(c) for a one-character separator: always at least one piece
RECURSIVE SplitChar(_, _, _)
SplitChar(s, c, cur) ==
    IF s = <<>> THEN <<cur>>
    ELSE IF Head(s) = c THEN <<cur>> \o SplitChar(Tail(s), c, <<>>)
    ELSE SplitChar(Tail(s), c, Append(cur, Head(s)))

\* s.split(): split on runs of whitespace, no empty pieces
RECURSIVE SplitWs(_, _)
SplitWs(s, cur) ==
    IF s = <<>> THEN (IF cur = <<>> THEN <<>> ELSE <<cur>>)
    ELSE IF IsSpace(Head(s))
         THEN (IF cur = <<>> THEN <<>> ELSE <<cur>>) \o SplitWs(Tail(s), <<>>)
         ELSE SplitWs(Tail(s), Append(cur, Head(s)))

---------------------------------------------------------------------------
\* extract_video_id

NotFound == [found |-> FALSE, id |-> <<>>]
Found(x) == [found |-> TRUE, id |-> x]

WatchLit == <<"y","o","u","t","u","b","e",".","c","o","m","/","w","a","t","c","h","?","v","=">>
ShortLit == <<"y","o","u","t","u",".","b","e","/">>
EmbedLit == <<"y","o","u","t","u","b","e",".","c","o","m","/","e","m","b","e","d","/">>
LegacyLit == <<"y","o","u","t","u","b","e",".","c","o","m","/","v","/">>

\* the two regular expressions, each a list of alternative literal prefixes
\* followed by the group ([^&\n?#]+)
patterns == << <<WatchLit, ShortLit, EmbedLit>>, <<LegacyLit>> >>

\* [^&\n?#]
IsIdChar(c) == c \notin {"&", "\n", "?", "#"}

\* the literal lit occurs in s at position i
LitAt(lit, s, i) ==
    /\ i + Len(lit) - 1 <= Len(s)
    /\ \A k \in 1..Len(lit) : s[i + k - 1] = lit[k]

\* the greedy group ([^&\n?#]+) from position j: the last position of the run
RECURSIVE RunEnd(_, _)
RunEnd(s, j) == IF j + 1 <= Len(s) /\ IsIdChar(s[j + 1]) THEN RunEnd(s, j + 1) ELSE j

\* the pattern matches at position i through alternative lit
AltMatchesAt(lit, s, i) ==
    /\ LitAt(lit, s, i)
    /\ i + Len(lit) <= Len(s)
    /\ IsIdChar(s[i + Len(lit)])

\* re.match in place of re.search: the pattern is tried at the start of s only
SearchAnchored(alts, s) ==
    IF \E a \in DOMAIN alts : AltMatchesAt(alts[a], s, 1)
    THEN LET a == CHOOSE x \in DOMAIN alts :
                     /\ AltMatchesAt(alts[x], s, 1)
                     /\ \A y \in DOMAIN alts : AltMatchesAt(alts[y], s, 1) => x <= y
             j == 1 + Len(alts[a])
         IN Found(SubSeq(s, j, RunEnd(s, j)))
    ELSE NotFound

\* re.search(pattern, s): leftmost position, first alternative that matches there
Search(alts, s) ==
    LET hits == {i \in 1..Len(s) : \E a \in DOMAIN alts : AltMatchesAt(alts[a], s, i)}
    IN IF hits = {} THEN NotFound
       ELSE LET i == CHOOSE x \in hits : \A y \in hits : x <= y
                a == CHOOSE x \in DOMAIN alts :
                        /\ AltMatchesAt(alts[x], s, i)
                        /\ \A y \in DOMAIN alts : AltMatchesAt(alts[y], s, i) => x <= y
                j == i + Len(alts[a])
            IN Found(SubSeq(s, j, RunEnd(s, j)))

\* for pattern in patterns: first pattern with a match wins
RECURSIVE FirstMatch(_, _)
FirstMatch(ps, s) ==
    IF ps = <<>> THEN NotFound
    ELSE LET m == Search(Head(ps), s)
         IN IF m.found THEN m ELSE FirstMatch(Tail(ps), s)

extract_video_id(u) == FirstMatch(patterns, u)

---------------------------------------------------------------------------
\* format_timestamp

\* decimal digits of n >= 0
RECURSIVE Decimal(_)
Decimal(n) ==
    IF n < 10 THEN <<DigitChars[n + 1]>>
    ELSE Decimal(n \div 10) \o <<DigitChars[(n % 10) + 1]>>

\* f"{n:02d}": at least two digits, zero padded
Pad02(n) == IF n < 10 THEN <<"0">> \o Decimal(n) ELSE Decimal(n)

\* format_timestamp with the hour field wrapped like a clock
format_timestamp_wrapped(seconds) ==
    LET hours == (seconds \div 3600) % 24
        minutes == (seconds % 3600) \div 60
        secs == seconds % 60
    IN Pad02(hours) \o <<":">> \o Pad02(minutes) \o <<":">> \o Pad02(secs)

format_timestamp(seconds) ==
    LET hours == seconds \div 3600
        minutes == (seconds % 3600) \div 60
        secs == seconds % 60
    IN Pad02(hours) \o <<":">> \o Pad02(minutes) \o <<":">> \o Pad02(secs)

---------------------------------------------------------------------------
\* create_filename_from_title

TranscriptLit == <<"_","t","r","a","n","s","c","r","i","p","t","_">>
TxtLit == <<".","t","x","t">>
Timestamped == <<"t","i","m","e","s","t","a","m","p","e","d">>
Prose == <<"p","r","o","s","e">>

\* words[:3]
FirstThree(words) == SubSeq(words, 1, IF Len(words) < 3 THEN Len(words) ELSE 3)

KeepWordOrSpace(c) == IsWordChar(c) \/ IsSpace(c)

\* title_part with .lower() applied to the whole stem, the fallback included
title_part_lowered(title, vid) ==
    IF title # <<>> /\ title # vid
    THEN LET clean_title == SelectSeq(title, KeepWordOrSpace)
             words == FirstThree(SplitWs(clean_title, <<>>))
         IN IF words # <<>> THEN lower(join(<<"_">>, words)) ELSE lower(vid)
    ELSE lower(vid)

title_part(title, vid) ==
    IF title # <<>> /\ title # vid
    THEN LET clean_title == SelectSeq(title, KeepWordOrSpace)
             words == FirstThree(SplitWs(clean_title, <<>>))
         IN IF words # <<>> THEN lower(join(<<"_">>, words)) ELSE vid
    ELSE vid

\* create_filename_from_title with the language code left out of the name
create_filename_without_language(title, vid, language_code, file_type) ==
    title_part(title, vid) \o TranscriptLit \o file_type \o TxtLit

create_filename_from_title(title, vid, language_code, file_type) ==
    title_part(title, vid) \o TranscriptLit \o file_type \o <<"_">> \o language_code \o TxtLit

---------------------------------------------------------------------------
\* create_timestamped_transcript

\* a caption segment: text and whole seconds of start and duration
Segment(text, start, duration) == [text |-> text, start |-> start, duration |-> duration]

\* f"[{start_time}] {text}" for one segment
TimestampedLine(segment) ==
    <<"[">> \o format_timestamp(segment.start) \o <<"]"," ">> \o strip(segment.text)

\* create_timestamped_transcript without the .strip() of the text
create_timestamped_transcript_unstripped(transcript) ==
    join(<<"\n">>, [i \in DOMAIN transcript |->
        <<"[">> \o format_timestamp(transcript[i].start) \o <<"]"," ">> \o transcript[i].text])

create_timestamped_transcript(transcript) ==
    join(<<"\n">>, [i \in DOMAIN transcript |-> TimestampedLine(transcript[i])])

---------------------------------------------------------------------------
\* create_prose_transcript

IsTerminal(c) == c \in {".", "!", "?"}

\* re.sub(r'\s+', ' ', s)
RECURSIVE CollapseSpaces(_)
CollapseSpaces(s) ==
    IF s = <<>> THEN <<>>
    ELSE IF IsSpace(Head(s)) THEN <<" ">> \o CollapseSpaces(lstrip(s))
    ELSE <<Head(s)>> \o CollapseSpaces(Tail(s))

\* re.sub(r'\s+([.!?])', r'\1', s): a whitespace run right before . ! ? is dropped
RECURSIVE DropSpaceBeforeTerminal(_)
DropSpaceBeforeTerminal(s) ==
    IF s = <<>> THEN <<>>
    ELSE IF IsSpace(Head(s))
         THEN LET rest == lstrip(s)
                  run == SubSeq(s, 1, Len(s) - Len(rest))
              IN IF rest # <<>> /\ IsTerminal(Head(rest))
                 THEN <<Head(rest)>> \o DropSpaceBeforeTerminal(Tail(rest))
                 ELSE run \o DropSpaceBeforeTerminal(rest)
         ELSE <<Head(s)>> \o DropSpaceBeforeTerminal(Tail(s))

\* re.split(r'(?<=[.!?])\s+', s): the separators are the whitespace runs that
\* directly follow . ! or ?; empty pieces are kept
RECURSIVE SplitSentences(_, _, _)
SplitSentences(s, cur, afterTerminal) ==
    IF s = <<>> THEN <<cur>>
    ELSE IF IsSpace(Head(s)) /\ afterTerminal
         THEN <<cur>> \o SplitSentences(lstrip(s), <<>>, FALSE)
         ELSE SplitSentences(Tail(s), Append(cur, Head(s)), IsTerminal(Head(s)))

\* len(current_paragraph) >= 3
ParagraphSize == 3

\* the grouping loop without the final flush of a short last paragraph
RECURSIVE GroupSentencesNoFlush(_, _, _)
GroupSentencesNoFlush(sentences, paragraphs, current_paragraph) ==
    IF sentences = <<>>
    THEN paragraphs
    ELSE LET sentence == strip(Head(sentences))
         IN IF sentence # <<>>
            THEN LET cur == Append(current_paragraph, sentence)
                 IN IF Len(cur) >= ParagraphSize
                    THEN GroupSentencesNoFlush(Tail(sentences),
                                        Append(paragraphs, join(<<" ">>, cur)), <<>>)
                    ELSE GroupSentencesNoFlush(Tail(sentences), paragraphs, cur)
            ELSE GroupSentencesNoFlush(Tail(sentences), paragraphs, current_paragraph)

\* the grouping loop over sentences, with its two accumulators, and the final flush
RECURSIVE GroupSentences(_, _, _)
GroupSentences(sentences, paragraphs, current_paragraph) ==
    IF sentences = <<>>
    THEN IF current_paragraph # <<>>
         THEN Append(paragraphs, join(<<" ">>, current_paragraph))
         ELSE paragraphs
    ELSE LET sentence == strip(Head(sentences))
         IN IF sentence # <<>>
            THEN LET cur == Append(current_paragraph, sentence)
                 IN IF Len(cur) >= ParagraphSize
                    THEN GroupSentences(Tail(sentences),
                                        Append(paragraphs, join(<<" ">>, cur)), <<>>)
                    ELSE GroupSentences(Tail(sentences), paragraphs, cur)
            ELSE GroupSentences(Tail(sentences), paragraphs, current_paragraph)

\* full_text after the join and the two clean-up substitutions
FullText(transcript) ==
    DropSpaceBeforeTerminal(CollapseSpaces(
        join(<<" ">>, [i \in DOMAIN transcript |-> transcript[i].text])))

create_prose_transcript(transcript) ==
    LET sentences == SplitSentences(FullText(transcript), <<>>, FALSE)
    IN join(<<"\n","\n">>, GroupSentences(sentences, <<>>, <<>>))

---------------------------------------------------------------------------
\* The environment of a run of main(): what the user types and what the
\* remote services answer

\* cap on the number of answers to the URL prompt in one run
MaxPrompts == 2
\* cap on the number of transcript tracks the service lists for a video
MaxTracks == 2

EN == <<"e","n">>
FR == <<"f","r">>

\* lines typed at "Enter YouTube video URL: "
UrlInputs == { <<>>, <<" "," ">>, <<"h","e","l","l","o">>,
               <<"h","t","t","p","s",":","/","/","y","o","u","t","u","b","e",".","c","o","m","/","w","a","t","c","h","?","v","=">>,
               <<"h","t","t","p","s",":","/","/","n","o","t","y","o","u","t","u","b","e",".","c","o","m","/","w","a","t","c","h","?","v","=","z","z">>,
               <<" ","h","t","t","p","s",":","/","/","y","o","u","t","u",".","b","e","/","a","b"," ">>,
               <<"h","t","t","p","s",":","/","/","w","w","w",".","y","o","u","t","u","b","e",".","c","o","m","/","w","a","t","c","h","?","v","=","c","d","&","t","=","1">> }

\* lines typed at "Languages: "
LangInputs == { <<>>, <<" ">>, <<"e","n">>, <<"e","n",",","f","r">>, <<"f","r",","," ","e","n">>, <<"e","n",",","e","n">>, <<"e","n",",","x","x">> }

\* what the oembed request can do: raise, or answer with a status and a title
OembedResponses ==
    { [kind |-> "raise", status |-> 0, title |-> <<>>],
      [kind |-> "response", status |-> 404, title |-> <<>>],
      [kind |-> "response", status |-> 200, title |-> <<>>],
      [kind |-> "response", status |-> 200, title |-> <<"A"," ","G","r","e","a","t"," ","V","i","d","e","o","!","!">>],
      [kind |-> "response", status |-> 200, title |-> <<"!","!","!">>] }

\* the language codes of the tracks api.list() yields, in order (a code may be
\* listed twice: a manual and a generated track)
RECURSIVE SeqsUpTo(_, _)
SeqsUpTo(S, n) ==
    IF n = 0 THEN {<<>>}
    ELSE LET shorter == SeqsUpTo(S, n - 1)
         IN shorter \cup {Append(s, x) : s \in {t \in shorter : Len(t) = n - 1}, x \in S}
TrackLists == SeqsUpTo({EN, FR}, MaxTracks)

\* the snippets a successful api.fetch() can carry
SnippetLists == { <<>>,
                  <<Segment(<<" ","H","i","."," ">>, 0, 2), Segment(<<"B","y","e">>, 3661, 4)>> }

\* outcomes of the two open()/write() pairs of save_transcript_files
SaveOutcomes == {"ok", "open_timestamped_raises", "write_timestamped_raises",
                 "open_prose_raises", "write_prose_raises"}

---------------------------------------------------------------------------
\* Python dicts, as sequences of [key, value] in insertion order

DictKeys(d) == [i \in DOMAIN d |-> d[i].key]
HasKey(d, k) == \E i \in DOMAIN d : d[i].key = k
\* d[k] = v: replaces the value in place, or appends a new key
DictSet(d, k, v) ==
    IF HasKey(d, k)
    THEN [i \in DOMAIN d |-> IF d[i].key = k THEN [key |-> k, value |-> v] ELSE d[i]]
    ELSE Append(d, [key |-> k, value |-> v])

\* open(name, 'w') ... f.write(content): creates or overwrites
WriteFile(fs, name, content) ==
    {f \in fs : f.name # name} \cup {[name |-> name, content |-> content]}

Line(msg, arg) == [msg |-> msg, arg |-> arg]

---------------------------------------------------------------------------
\* get_video_title

get_video_title(vid, response) ==
    IF response.kind = "response" /\ response.status = 200 /\ response.title # <<>>
    THEN response.title
    ELSE vid

\* get_available_languages: the keys of the dict built from the listed tracks
RECURSIVE LanguagesOf(_, _)
LanguagesOf(tracks, langs) ==
    IF tracks = <<>> THEN langs
    ELSE LanguagesOf(Tail(tracks), DictSet(langs, Head(tracks), Head(tracks)))

get_available_languages(listing) ==
    IF listing.raised THEN <<>> ELSE DictKeys(LanguagesOf(listing.tracks, <<>>))

\* [lang.strip() for lang in lang_input.split(',')]
RequestedFromInput(typed) ==
    LET parts == SplitChar(typed, ",", <<>>)
    IN [i \in DOMAIN parts |-> strip(parts[i])]

---------------------------------------------------------------------------
\* main()

Running == -1

MainInit ==
    /\ pc = "url"
    /\ url = <<>>
    /\ video_id = NotFound
    /\ video_title = <<>>
    /\ languages = <<>>
    /\ lang_input = <<>>
    /\ requested_languages = <<>>
    /\ fetch_i = 1
    /\ transcripts = <<>>
    /\ save_i = 1
    /\ total_segments = 0
    /\ files = {}
    /\ calls = <<>>
    /\ stdout = <<>>
    /\ prompts = 0
    /\ exit_code = Running

\* no run of main(): the state of the specifications of the pure functions
MainIdle ==
    /\ pc = "idle"
    /\ url = <<>>
    /\ video_id = NotFound
    /\ video_title = <<>>
    /\ languages = <<>>
    /\ lang_input = <<>>
    /\ requested_languages = <<>>
    /\ fetch_i = 1
    /\ transcripts = <<>>
    /\ save_i = 1
    /\ total_segments = 0
    /\ files = {}
    /\ calls = <<>>
    /\ stdout = <<>>
    /\ prompts = 0
    /\ exit_code = Running

PureIdle ==
    /\ extract = <<>>
    /\ stamp = <<>>
    /\ fname = <<>>
    /\ stamped = <<>>
    /\ prose = <<>>

\* the URL loop without the "continue" after "Invalid YouTube URL": the loop
\* is left with whatever extract_video_id returned
PromptUrlNoContinue ==
    /\ pc = "url"
    /\ prompts < MaxPrompts
    /\ \E line \in UrlInputs :
         LET u == strip(line)
             v == extract_video_id(u)
         IN /\ url' = u
            /\ prompts' = prompts + 1
            /\ IF u = <<>>
               THEN /\ stdout' = Append(stdout, Line("Please enter a valid URL.", <<>>))
                    /\ UNCHANGED <<pc, video_id>>
               ELSE /\ video_id' = v
                    /\ stdout' =
                         IF ~v.found \/ v.id = <<>>
                         THEN stdout \o <<Line("Invalid YouTube URL. Please try again.", <<>>),
                                          Line("Video ID", v.id)>>
                         ELSE Append(stdout, Line("Video ID", v.id))
                    /\ pc' = "title"
    /\ UNCHANGED <<video_title, languages, lang_input, requested_languages, fetch_i,
                   transcripts, save_i, total_segments, files, calls, exit_code, pureVars>>

\* one pass of the while True loop: read a line, strip it, try to extract
PromptUrl ==
    /\ pc = "url"
    /\ prompts < MaxPrompts
    /\ \E line \in UrlInputs :
         LET u == strip(line)
             v == extract_video_id(u)
         IN /\ url' = u
            /\ prompts' = prompts + 1
            /\ IF u = <<>>
               THEN /\ stdout' = Append(stdout, Line("Please enter a valid URL.", <<>>))
                    /\ UNCHANGED <<pc, video_id>>
               ELSE /\ video_id' = v
                    /\ IF ~v.found \/ v.id = <<>>
                       THEN /\ stdout' = Append(stdout,
                                   Line("Invalid YouTube URL. Please try again.", <<>>))
                            /\ UNCHANGED pc
                       ELSE /\ stdout' = Append(stdout, Line("Video ID", v.id))
                            /\ pc' = "title"
    /\ UNCHANGED <<video_title, languages, lang_input, requested_languages, fetch_i, transcripts,
                   save_i, total_segments, files, calls, exit_code, pureVars>>

\* input() raises (end of input, Ctrl-C): caught at the top level, exit code 1
InputRaises ==
    /\ pc \in {"url", "ask"}
    /\ pc' = "done"
    /\ exit_code' = 1
    /\ stdout' = Append(stdout, Line("Operation cancelled or unexpected error", <<>>))
    /\ UNCHANGED <<url, video_id, video_title, languages, lang_input, requested_languages, fetch_i,
                   transcripts, save_i, total_segments, files, calls, prompts, pureVars>>

\* video_title = get_video_title(video_id)
GetVideoTitle ==
    /\ pc = "title"
    /\ \E response \in OembedResponses :
         video_title' = get_video_title(video_id.id, response)
    /\ calls' = Append(calls, [op |-> "oembed", video_id |-> video_id.id, lang |-> <<>>])
    /\ stdout' = Append(stdout, Line("Video title", video_title'))
    /\ pc' = "langs"
    /\ UNCHANGED <<url, video_id, languages, lang_input, requested_languages, fetch_i, transcripts,
                   save_i, total_segments, files, prompts, exit_code, pureVars>>

\* main() without the early return on an empty mapping
GetAvailableLanguagesNoReturn ==
    /\ pc = "langs"
    /\ \E listing \in {[raised |-> TRUE, tracks |-> <<>>]}
                      \cup {[raised |-> FALSE, tracks |-> t] : t \in TrackLists} :
         languages' = get_available_languages(listing)
    /\ calls' = Append(calls, [op |-> "list", video_id |-> video_id.id, lang |-> <<>>])
    /\ pc' = "ask"
    /\ UNCHANGED <<stdout, exit_code>>
    /\ UNCHANGED <<url, video_id, video_title, lang_input, requested_languages, fetch_i,
                   transcripts, save_i, total_segments, files, prompts, pureVars>>

\* languages = get_available_languages(video_id); if not languages: return
GetAvailableLanguages ==
    /\ pc = "langs"
    /\ \E listing \in {[raised |-> TRUE, tracks |-> <<>>]}
                      \cup {[raised |-> FALSE, tracks |-> t] : t \in TrackLists} :
         languages' = get_available_languages(listing)
    /\ calls' = Append(calls, [op |-> "list", video_id |-> video_id.id, lang |-> <<>>])
    /\ IF languages' = <<>>
       THEN /\ stdout' = Append(stdout,
                   Line("No transcripts available for this video.", <<>>))
            /\ pc' = "done"
            /\ exit_code' = 0
       ELSE /\ pc' = "ask"
            /\ UNCHANGED <<stdout, exit_code>>
    /\ UNCHANGED <<url, video_id, video_title, lang_input, requested_languages, fetch_i,
                   transcripts, save_i, total_segments, files, prompts, pureVars>>

\* lang_input = input("Languages: ").strip(); build requested_languages;
\* enter fetch_transcripts
PromptLanguages ==
    /\ pc = "ask"
    /\ \E line \in LangInputs :
         /\ lang_input' = strip(line)
         /\ requested_languages' =
                IF lang_input' # <<>>
                THEN RequestedFromInput(lang_input')
                ELSE <<EN>> \o languages
    /\ fetch_i' = 1
    /\ transcripts' = <<>>
    /\ pc' = "fetch"
    /\ UNCHANGED <<url, video_id, video_title, languages, save_i, total_segments, files,
                   calls, stdout, prompts, exit_code, pureVars>>

\* a failure ends the loop (break in place of continue)
AfterAttemptBreak(i, ok) == IF ok THEN i + 1 ELSE Len(requested_languages) + 1

\* a failure is followed by another attempt on the same code
AfterAttemptRetry(i, ok) == IF ok THEN i + 1 ELSE i

\* the for loop of fetch_transcripts after an attempt on the i-th code: the
\* except clause continues with the next code, like a successful attempt
AfterAttempt(i, ok) == i + 1

\* one iteration of the for loop of fetch_transcripts; after the last one,
\* the return to main() and its "if not transcripts" test
FetchTranscript ==
    /\ pc = "fetch"
    /\ fetch_i <= Len(requested_languages)
    /\ LET lang_code == requested_languages[fetch_i]
       IN /\ calls' = Append(calls,
                 [op |-> "fetch", video_id |-> video_id.id, lang |-> lang_code])
          /\ \E ok \in BOOLEAN, snippets \in SnippetLists :
               LET last == AfterAttempt(fetch_i, ok) > Len(requested_languages) IN
               /\ fetch_i' = AfterAttempt(fetch_i, ok)
               \* the service has a track only for a listed language
               /\ ok => lang_code \in Range(languages)
               /\ ~ok => snippets = <<>>
               /\ transcripts' = IF ok THEN DictSet(transcripts, lang_code, snippets)
                                 ELSE transcripts
               /\ LET printed == Append(stdout,
                          Line(IF ok THEN "Successfully fetched transcript in"
                               ELSE "Failed to fetch transcript in", lang_code))
                  IN IF last /\ transcripts' = <<>>
                     THEN /\ stdout' = Append(printed,
                               Line("Failed to fetch transcripts in any of the requested languages.", <<>>))
                          /\ pc' = "done"
                          /\ exit_code' = 0
                     ELSE /\ stdout' = printed
                          /\ pc' = IF last THEN "save" ELSE "fetch"
                          /\ UNCHANGED exit_code
    /\ save_i' = 1
    /\ total_segments' = 0
    /\ UNCHANGED <<url, video_id, video_title, languages, lang_input, requested_languages,
                   files, prompts, pureVars>>

\* one iteration of "for lang_code, transcript in transcripts.items()":
\* save_transcript_files and the running total; after the last one, the summary
SaveTranscriptFiles ==
    /\ pc = "save"
    /\ save_i <= Len(transcripts)
    /\ LET lang_code == transcripts[save_i].key
           transcript == transcripts[save_i].value
           timestamped_content == create_timestamped_transcript(transcript)
           timestamped_filename ==
               create_filename_from_title(video_title, video_id.id, lang_code, Timestamped)
           prose_content == create_prose_transcript(transcript)
           prose_filename ==
               create_filename_from_title(video_title, video_id.id, lang_code, Prose)
           last == save_i = Len(transcripts)
           first_transcript == transcripts[1].value
           summary ==
               Line("Transcript processing complete!",
                    IF first_transcript # <<>>
                    THEN format_timestamp(first_transcript[Len(first_transcript)].start
                                          + first_transcript[Len(first_transcript)].duration)
                    ELSE <<>>)
           savedT == Line("Timestamped transcript saved to", timestamped_filename)
           savedP == Line("Prose transcript saved to", prose_filename)
           error == Line("Error saving files", lang_code)
       IN /\ \E outcome \in SaveOutcomes :
               LET fs == CASE outcome = "ok" ->
                                WriteFile(WriteFile(files, timestamped_filename,
                                                    timestamped_content),
                                          prose_filename, prose_content)
                           [] outcome = "open_timestamped_raises" -> files
                           [] outcome = "write_timestamped_raises" ->
                                WriteFile(files, timestamped_filename, <<>>)
                           [] outcome = "open_prose_raises" ->
                                WriteFile(files, timestamped_filename, timestamped_content)
                           [] outcome = "write_prose_raises" ->
                                WriteFile(WriteFile(files, timestamped_filename,
                                                    timestamped_content),
                                          prose_filename, <<>>)
                   printed == CASE outcome = "ok" -> stdout \o <<savedT, savedP>>
                                [] outcome \in {"open_timestamped_raises",
                                                "write_timestamped_raises"} ->
                                     stdout \o <<error>>
                                [] OTHER -> stdout \o <<savedT, error>>
               IN /\ files' = fs
                  /\ stdout' = IF last THEN Append(printed, summary) ELSE printed
          /\ total_segments' = total_segments + Len(transcript)
          /\ save_i' = save_i + 1
          /\ pc' = IF last THEN "done" ELSE "save"
          /\ exit_code' = IF last THEN 0 ELSE exit_code
    /\ UNCHANGED <<url, video_id, video_title, languages, lang_input, requested_languages, fetch_i,
                   transcripts, calls, prompts, pureVars>>

Init == MainInit /\ PureIdle

Next ==
    \/ PromptUrl
    \/ InputRaises
    \/ GetVideoTitle
    \/ GetAvailableLanguages
    \/ PromptLanguages
    \/ FetchTranscript
    \/ SaveTranscriptFiles

Spec == Init /\ [][Next]_vars

---------------------------------------------------------------------------
\* One call of each pure function, on arguments drawn from bounded sets

\* the largest whole number of seconds format_timestamp is called on
MaxSeconds == 90000
\* the largest number of pieces a title is put together from
MaxTitleParts == 4
\* the largest number of segments passed to create_timestamped_transcript
MaxStampedSegments == 3
\* the largest number of segments passed to create_prose_transcript
MaxProseSegments == 4

\* URLs put together as scheme, host prefix, host, path, identifier, rest
UrlSchemes == { <<>>, <<"h","t","t","p","s",":","/","/">> }
UrlHostPrefixes == { <<>>, <<"w","w","w",".">>, <<"n","o","t">> }
UrlHosts == { <<"y","o","u","t","u","b","e",".","c","o","m">>, <<"y","o","u","t","u",".","b","e">>, <<"e","x","a","m","p","l","e",".","c","o","m">> }
UrlPaths == { <<"/","w","a","t","c","h","?","v","=">>, <<"/","w","a","t","c","h","?","f","=","1","&","v","=">>, <<"/","e","m","b","e","d","/">>, <<"/","v","/">>, <<"/">>,
              <<"/","?","u","=","y","o","u","t","u",".","b","e","/">> }
UrlIds == { <<>>, <<"a","B","1">>, <<"x","-","_">> }
UrlRests == { <<>>, <<"&","t","=","1">>, <<"?","t","=","1">>, <<"#","x">>, <<"/","y","o","u","t","u",".","b","e","/","z","z">> }

UrlOf(p) == p.scheme \o p.prefix \o p.host \o p.path \o p.id \o p.rest

ExtractInputs ==
    { [scheme |-> a, prefix |-> b, host |-> c, path |-> d, id |-> e, rest |-> f] :
        a \in UrlSchemes, b \in UrlHostPrefixes, c \in UrlHosts,
        d \in UrlPaths, e \in UrlIds, f \in UrlRests }

InitExtract ==
    /\ MainIdle
    /\ extract \in { [parts |-> p, url |-> UrlOf(p), ret |-> NotFound, returned |-> FALSE] :
                       p \in ExtractInputs }
    /\ stamp = <<>> /\ fname = <<>> /\ stamped = <<>> /\ prose = <<>>

CallExtract ==
    /\ ~extract.returned
    /\ extract' = [extract EXCEPT !.ret = extract_video_id(extract.url),
                                  !.returned = TRUE]
    /\ UNCHANGED <<mainVars, stamp, fname, stamped, prose>>

SpecExtract == InitExtract /\ [][CallExtract]_vars

InitStamp ==
    /\ MainIdle
    /\ stamp \in { [seconds |-> s, ret |-> <<>>, returned |-> FALSE] : s \in 0..MaxSeconds }
    /\ extract = <<>> /\ fname = <<>> /\ stamped = <<>> /\ prose = <<>>

CallStamp ==
    /\ ~stamp.returned
    /\ stamp' = [stamp EXCEPT !.ret = format_timestamp(stamp.seconds), !.returned = TRUE]
    /\ UNCHANGED <<mainVars, extract, fname, stamped, prose>>

SpecStamp == InitStamp /\ [][CallStamp]_vars

\* titles: up to MaxTitleParts pieces, concatenated
TitlePieces == { <<"A","b"," ">>, <<"c","!">>, <<"_">>, <<" ">>, <<"!","!">>, <<"x","Y">>, <<"A">> }
RECURSIVE Concat(_)
Concat(parts) == IF parts = <<>> THEN <<>> ELSE Head(parts) \o Concat(Tail(parts))
Titles == { Concat(ps) : ps \in SeqsUpTo(TitlePieces, MaxTitleParts) }

InitFilename ==
    /\ MainIdle
    /\ fname \in { [title |-> t, video_id |-> v, language_code |-> EN, file_type |-> k,
                    ret |-> <<>>, returned |-> FALSE] :
                     t \in Titles, v \in {<<"x","Y">>, <<"A">>}, k \in {Timestamped, Prose} }
    /\ extract = <<>> /\ stamp = <<>> /\ stamped = <<>> /\ prose = <<>>

CallFilename ==
    /\ ~fname.returned
    /\ fname' = [fname EXCEPT
                   !.ret = create_filename_from_title(fname.title, fname.video_id,
                                                      fname.language_code, fname.file_type),
                   !.returned = TRUE]
    /\ UNCHANGED <<mainVars, extract, stamp, stamped, prose>>

SpecFilename == InitFilename /\ [][CallFilename]_vars

StampedSegments ==
    { Segment(t, s, 2) : t \in { <<"a">>, <<" ","a"," ">>, <<"a","\n","b">>, <<"\n">>, <<>> }, s \in {0, 3661} }

InitStamped ==
    /\ MainIdle
    /\ stamped \in { [transcript |-> t, ret |-> <<>>, returned |-> FALSE] :
                       t \in SeqsUpTo(StampedSegments, MaxStampedSegments) }
    /\ extract = <<>> /\ stamp = <<>> /\ fname = <<>> /\ prose = <<>>

CallStamped ==
    /\ ~stamped.returned
    /\ stamped' = [stamped EXCEPT !.ret = create_timestamped_transcript(stamped.transcript),
                                  !.returned = TRUE]
    /\ UNCHANGED <<mainVars, extract, stamp, fname, prose>>

SpecStamped == InitStamped /\ [][CallStamped]_vars

ProseSegments ==
    { Segment(t, 0, 2) : t \in { <<"a",".">>, <<"b","?"," ","c","!">>, <<" ">>, <<"d">>, <<"e"," ","."," ">> } }

InitProse ==
    /\ MainIdle
    /\ prose \in { [transcript |-> t, ret |-> <<>>, returned |-> FALSE] :
                     t \in SeqsUpTo(ProseSegments, MaxProseSegments) }
    /\ extract = <<>> /\ stamp = <<>> /\ fname = <<>> /\ stamped = <<>>

CallProse ==
    /\ ~prose.returned
    /\ prose' = [prose EXCEPT !.ret = create_prose_transcript(prose.transcript),
                              !.returned = TRUE]
    /\ UNCHANGED <<mainVars, extract, stamp, fname, stamped>>

SpecProse == InitProse /\ [][CallProse]_vars

---------------------------------------------------------------------------
\* Properties of the pure functions

\* the number a string of decimal digits denotes
RECURSIVE ParseDecimal(_)
ParseDecimal(ds) ==
    IF ds = <<>> THEN 0
    ELSE 10 * ParseDecimal(SubSeq(ds, 1, Len(ds) - 1))
         + ((CHOOSE i \in DOMAIN DigitChars : DigitChars[i] = ds[Len(ds)]) - 1)

IsDigits(ds) == ds # <<>> /\ \A i \in DOMAIN ds : ds[i] \in Range(DigitChars)

\* a field is zero padded to two digits and no further
PaddedToTwo(ds) == Len(ds) >= 2 /\ (Len(ds) > 2 => ds[1] # "0")

\* C9: for every whole number of seconds s >= 0 up to MaxSeconds (86400 and more
\* included), format_timestamp(s) is three fields of decimal digits separated
\* by colons, each zero padded to at least two digits, whose values are
\* H = s div 3600, M = (s mod 3600) div 60 and S = s mod 60, so that M < 60,
\* S < 60 and H*3600 + M*60 + S = s: the hour field is never wrapped
\* (0 gives 00:00:00, 3661 gives 01:01:01, 90000 gives 25:00:00).
TimestampFields ==
    stamp.returned =>
        LET s == stamp.seconds
            f == SplitChar(stamp.ret, ":", <<>>)
        IN /\ Len(f) = 3
           /\ \A i \in 1..3 : IsDigits(f[i]) /\ PaddedToTwo(f[i])
           /\ ParseDecimal(f[1]) = s \div 3600
           /\ ParseDecimal(f[2]) = (s % 3600) \div 60
           /\ ParseDecimal(f[3]) = s % 60
           /\ ParseDecimal(f[2]) < 60
           /\ ParseDecimal(f[3]) < 60
           /\ ParseDecimal(f[1]) * 3600 + ParseDecimal(f[2]) * 60 + ParseDecimal(f[3]) = s
           /\ (s = 0 => stamp.ret = <<"0","0",":","0","0",":","0","0">>)
           /\ (s = 3661 => stamp.ret = <<"0","1",":","0","1",":","0","1">>)
           /\ (s = 90000 => stamp.ret = <<"2","5",":","0","0",":","0","0">>)

\* 25 hours are formatted with an hour field of 25
TimestampBeyondADay ==
    stamp.returned /\ stamp.seconds = 90000 /\ stamp.ret = <<"2","5",":","0","0",":","0","0">>

\* the tokens of a title: its whitespace-separated pieces with the characters
\* that are not kept deleted, the pieces left empty dropped
KeptChars(token, underscoreKept) ==
    SelectSeq(token, LAMBDA c : IsAlnum(c) \/ (underscoreKept /\ c = "_"))
TitleTokens(title, underscoreKept) ==
    LET pieces == SplitWs(title, <<>>)
        kept == [i \in DOMAIN pieces |-> KeptChars(pieces[i], underscoreKept)]
    IN SelectSeq(kept, LAMBDA t : t # <<>>)
ExpectedStem(title, vid, underscoreKept) ==
    LET tokens == TitleTokens(title, underscoreKept)
    IN IF title = vid \/ tokens = <<>> THEN vid
       ELSE lower(join(<<"_">>, SubSeq(tokens, 1, IF Len(tokens) < 3 THEN Len(tokens) ELSE 3)))
ExpectedFilename(f, underscoreKept) ==
    ExpectedStem(f.title, f.video_id, underscoreKept)
        \o <<"_","t","r","a","n","s","c","r","i","p","t","_">> \o f.file_type \o <<"_">> \o f.language_code \o <<".","t","x","t">>

\* C6 as amended: create_filename_from_title returns
\* '{stem}_transcript_{fileKind}_{languageCode}.txt' where, if the title differs
\* from the identifier, the stem is the title with all characters removed that
\* are neither alphanumeric, nor the underscore, nor whitespace, split on
\* whitespace, the first three tokens joined with underscore and lowercased; if
\* that yields no tokens (a title such as '!!!'), or the title equals the
\* identifier, the stem is the raw identifier unchanged.  A title of underscores
\* such as '___' keeps its underscores and is its own stem.
FilenameKeepsWordCharacters ==
    fname.returned => fname.ret = ExpectedFilename(fname, TRUE)

\* C6 as stated: every character that is not alphanumeric or whitespace is
\* removed, so that a title made only of underscores falls back to the identifier
FilenameKeepsAlphanumericsOnly ==
    fname.returned => fname.ret = ExpectedFilename(fname, FALSE)

\* a title made of one underscore has been turned into a file name
FilenameOfUnderscoreTitle ==
    /\ fname.returned
    /\ fname.title = <<"_">>
    /\ fname.video_id = <<"x","Y">>
    /\ fname.ret = <<"_","_","t","r","a","n","s","c","r","i","p","t","_">> \o fname.file_type \o <<"_","e","n",".","t","x","t">>

\* the entries of the timestamped rendering, one per segment
ExpectedEntry(segment) ==
    <<"[">> \o format_timestamp(segment.start) \o <<"]"," ">> \o strip(segment.text)
\* the lines of a text: its pieces between newline characters
LinesOf(text) == SplitChar(text, "\n", <<>>)
NewlinesIn(text) == Cardinality({i \in DOMAIN text : text[i] = "\n"})
RECURSIVE LinesOfAll(_)
LinesOfAll(entries) ==
    IF entries = <<>> THEN <<>> ELSE LinesOf(Head(entries)) \o LinesOfAll(Tail(entries))
RECURSIVE SumNewlines(_)
SumNewlines(entries) ==
    IF entries = <<>> THEN 0 ELSE NewlinesIn(Head(entries)) + SumNewlines(Tail(entries))
\* '[HH:MM:SS] ' with a two-digit hour field
StartsWithStamp(line) ==
    /\ Len(line) >= 11
    /\ line[1] = "[" /\ line[4] = ":" /\ line[7] = ":" /\ line[10] = "]" /\ line[11] = " "
    /\ \A i \in {2, 3, 5, 6, 8, 9} : line[i] \in Range(DigitChars)

\* C7 as amended: create_timestamped_transcript of N >= 1 segments is the N
\* entries '[HH:MM:SS] ' + trimmed text of the i-th segment, in the original
\* order, none merged or dropped, joined with newline.  It has N lines exactly
\* when no trimmed text contains a newline; in general it has N plus the number
\* of newlines inside the trimmed texts, since a text's interior newline is
\* copied into the output.
TimestampedEntries ==
    (stamped.returned /\ Len(stamped.transcript) >= 1) =>
        LET t == stamped.transcript
            entries == [i \in DOMAIN t |-> ExpectedEntry(t[i])]
            lines == LinesOf(stamped.ret)
        IN /\ lines = LinesOfAll(entries)
           /\ Len(lines) = Len(t) + SumNewlines(entries)
           /\ \A i \in DOMAIN t : StartsWithStamp(entries[i])
           /\ (SumNewlines(entries) = 0 =>
                 /\ Len(lines) = Len(t)
                 /\ \A i \in DOMAIN t : lines[i] = entries[i])

\* C7 as stated: N segments always give exactly N lines, the i-th being the
\* i-th segment's entry, also for texts with an interior newline
TimestampedExactlyNLines ==
    (stamped.returned /\ Len(stamped.transcript) >= 1) =>
        LET t == stamped.transcript
            lines == LinesOf(stamped.ret)
        IN /\ Len(lines) = Len(t)
           /\ \A i \in DOMAIN t : lines[i] = ExpectedEntry(t[i])

\* three segments, one with an interior newline, rendered as four lines
TimestampedWithInteriorNewline ==
    /\ stamped.returned
    /\ Len(stamped.transcript) = 3
    /\ \E i \in 1..3 : stamped.transcript[i].text = <<"a","\n","b">>
    /\ Len(LinesOf(stamped.ret)) = 4


\* the non-empty sentences the split yields, trimmed, in order
SentencesOf(transcript) ==
    LET pieces == SplitSentences(FullText(transcript), <<>>, FALSE)
        trimmed == [i \in DOMAIN pieces |-> strip(pieces[i])]
    IN SelectSeq(trimmed, LAMBDA s : s # <<>>)

\* the paragraphs of a prose text: its pieces between blank lines
RECURSIVE OddPieces(_)
OddPieces(pieces) ==
    IF Len(pieces) <= 1 THEN pieces
    ELSE <<Head(pieces)>> \o OddPieces(Tail(Tail(pieces)))
ParagraphsOf(text) == IF text = <<>> THEN <<>> ELSE OddPieces(LinesOf(text))
\* between two paragraphs there is one empty line and nothing else
BlankLineSeparated(text) ==
    LET pieces == LinesOf(text)
    IN \A i \in DOMAIN pieces : (i % 2 = 0) <=> (pieces[i] = <<>>)

\* the sentences of one paragraph, found again by the sentence split
SentencesIn(paragraph) == SplitSentences(paragraph, <<>>, FALSE)
RECURSIVE AllSentencesIn(_)
AllSentencesIn(paragraphs) ==
    IF paragraphs = <<>> THEN <<>>
    ELSE SentencesIn(Head(paragraphs)) \o AllSentencesIn(Tail(paragraphs))

CeilDiv(n, d) == (n + d - 1) \div d

SupportedForm(p) ==
    /\ p.prefix \in { <<>>, <<"w","w","w",".">> }
    /\ \/ p.host = <<"y","o","u","t","u","b","e",".","c","o","m">> /\ p.path \in { <<"/","w","a","t","c","h","?","v","=">>, <<"/","e","m","b","e","d","/">>, <<"/","v","/">> }
       \/ p.host = <<"y","o","u","t","u",".","b","e">> /\ p.path = <<"/">>
    /\ p.id # <<>>
    /\ p.rest \in { <<>>, <<"&","t","=","1">>, <<"?","t","=","1">>, <<"#","x">> }

\* the host of the URL is not a YouTube host
ForeignHost(p) ==
    p.prefix \o p.host \notin { <<"y","o","u","t","u","b","e",".","c","o","m">>, <<"w","w","w",".","y","o","u","t","u","b","e",".","c","o","m">>,
                                <<"y","o","u","t","u",".","b","e">>, <<"w","w","w",".","y","o","u","t","u",".","b","e">> }

\* the places of u where a prefix of the list is followed by an identifier character
OccursAt(lit, u, i) == i + Len(lit) - 1 <= Len(u) /\ SubSeq(u, i, i + Len(lit) - 1) = lit
IdCharAt(u, j) == j <= Len(u) /\ u[j] \notin {"&", "\n", "?", "#"}
Hits(lits, u) ==
    { h \in (1..Len(u)) \X lits : OccursAt(h[2], u, h[1]) /\ IdCharAt(u, h[1] + Len(h[2])) }
\* the identifier characters from position j up to the next & newline ? # or the end
RunFrom(u, j) ==
    LET stops == { k \in j..Len(u) : ~IdCharAt(u, k) }
    IN SubSeq(u, j, IF stops = {} THEN Len(u)
                    ELSE (CHOOSE k \in stops : \A m \in stops : k <= m) - 1)
LeftmostRun(lits, u) ==
    LET h == CHOOSE x \in Hits(lits, u) : \A y \in Hits(lits, u) : x[1] <= y[1]
    IN RunFrom(u, h[1] + Len(h[2]))
FirstGroup == { <<"y","o","u","t","u","b","e",".","c","o","m","/","w","a","t","c","h","?","v","=">>, <<"y","o","u","t","u",".","b","e","/">>, <<"y","o","u","t","u","b","e",".","c","o","m","/","e","m","b","e","d","/">> }
SecondGroup == { <<"y","o","u","t","u","b","e",".","c","o","m","/","v","/">> }

\* C10 as amended: extract_video_id searches the whole string and never looks
\* at the host.  It returns the run of characters other than & newline ? #
\* that follows the leftmost 'youtube.com/watch?v=', 'youtu.be/' or
\* 'youtube.com/embed/' which such a character follows, else the leftmost such
\* 'youtube.com/v/', and not-found exactly when the string holds none.  So for
\* a standard watch URL with v as the first query parameter, a short link, an
\* embed URL and a legacy /v/ URL, the identifier ended by & ? # or the end of
\* the string, it returns the identifier, and it returns an identifier as well
\* for a URL whose host merely contains 'youtube.com'.
ExtractSearchesAnywhere ==
    extract.returned =>
        LET u == extract.url
            r == extract.ret
            p == extract.parts
        IN /\ SupportedForm(p) => r = Found(p.id)
           /\ r.found <=> (Hits(FirstGroup, u) # {} \/ Hits(SecondGroup, u) # {})
           /\ Hits(FirstGroup, u) # {} => r = Found(LeftmostRun(FirstGroup, u))
           /\ (Hits(FirstGroup, u) = {} /\ Hits(SecondGroup, u) # {})
                 => r = Found(LeftmostRun(SecondGroup, u))
           /\ (p.prefix = <<"n","o","t">> /\ p.host = <<"y","o","u","t","u","b","e",".","c","o","m">> /\ p.path = <<"/","w","a","t","c","h","?","v","=">>
               /\ p.id # <<>> /\ p.rest = <<>>) => r = Found(p.id)

\* C10 as stated: the identifier for the four supported forms, and not-found
\* for every URL whose host is neither youtube.com nor youtu.be
ExtractRejectsForeignHosts ==
    extract.returned =>
        /\ SupportedForm(extract.parts) => extract.ret = Found(extract.parts.id)
        /\ ForeignHost(extract.parts) => extract.ret = NotFound

\* an identifier has been returned for a watch URL on the host notyoutube.com
ExtractedFromLookalikeHost ==
    /\ extract.returned
    /\ extract.url = <<"h","t","t","p","s",":","/","/","n","o","t","y","o","u","t","u","b","e",".","c","o","m","/","w","a","t","c","h","?","v","=","a","B","1">>
    /\ extract.ret = Found(<<"a","B","1">>)

---------------------------------------------------------------------------
\* Properties of a run of main()

FetchCalls == SelectSeq(calls, LAMBDA c : c.op = "fetch")
FetchOk == "Successfully fetched transcript in"
FetchFailed == "Failed to fetch transcript in"
\* the lines fetch_transcripts printed, one per attempt
FetchLines == SelectSeq(stdout, LAMBDA l : l.msg \in {FetchOk, FetchFailed})
LastLine == IF stdout = <<>> THEN Line("", <<>>) ELSE stdout[Len(stdout)]
\* fetch_transcripts has been entered and has returned
FetchReturned == pc \in {"save", "done"} /\ requested_languages # <<>>
\* the language enumeration has been done
Listed == \E i \in DOMAIN calls : calls[i].op = "list"
\* main() has returned
CompletedNormally == pc = "done" /\ exit_code = 0

\* what fetch_transcripts does whatever the list and whatever fails
AllAttemptedInOrder ==
    /\ [i \in DOMAIN FetchCalls |-> FetchCalls[i].lang] = requested_languages
    /\ [i \in DOMAIN FetchLines |-> FetchLines[i].arg] = requested_languages
KeysAreSucceededCodes ==
    Range(DictKeys(transcripts)) =
        { requested_languages[i] : i \in { j \in DOMAIN FetchLines : FetchLines[j].msg = FetchOk } }

\* C1 as amended: fetch_transcripts isolates per-language failures: for every
\* list of requested codes and every choice of which attempts fail, every entry
\* of the list is attempted (a failure never stops the loop over the remaining
\* codes), and the returned mapping's key set is exactly the set of codes with
\* a successful attempt; a code all of whose attempts failed is absent from the
\* result (a code listed twice is present as soon as one of its attempts
\* succeeded).
FetchIsolatesFailures ==
    FetchReturned =>
        /\ AllAttemptedInOrder
        /\ KeysAreSucceededCodes
        /\ \A c \in Range(requested_languages) :
             (\A i \in DOMAIN FetchLines :
                 FetchLines[i].arg = c => FetchLines[i].msg = FetchFailed)
             => ~HasKey(transcripts, c)

\* C1 as stated: ... a code whose fetch failed is absent from the result
FetchFailedCodeIsAbsent ==
    FetchReturned =>
        /\ AllAttemptedInOrder
        /\ KeysAreSucceededCodes
        /\ \A i \in DOMAIN FetchLines :
             FetchLines[i].msg = FetchFailed => ~HasKey(transcripts, FetchLines[i].arg)

\* "fr, en" was requested, fr failed, and en was fetched all the same
FetchedAfterAFailure ==
    /\ FetchReturned
    /\ requested_languages = <<FR, EN>>
    /\ FetchLines[1].msg = FetchFailed
    /\ DictKeys(transcripts) = <<EN>>

\* C2: if language enumeration returns an empty mapping (also because the call
\* failed), or if no requested language is fetched, the run prints its message
\* and returns normally (exit code 0, not 1) and no file is written in that
\* run; with zero languages no transcript fetch is attempted either.
NothingAvailableEndsCleanly ==
    /\ (Listed /\ languages = <<>>) =>
          /\ CompletedNormally
          /\ LastLine.msg = "No transcripts available for this video."
          /\ files = {}
          /\ FetchCalls = <<>>
    /\ (FetchReturned /\ transcripts = <<>>) =>
          /\ CompletedNormally
          /\ LastLine.msg = "Failed to fetch transcripts in any of the requested languages."
          /\ files = {}

\* a run ended after every requested language failed
EndedWithNothingFetched ==
    /\ FetchReturned
    /\ transcripts = <<>>
    /\ Len(FetchCalls) >= 2
    /\ CompletedNormally
    /\ files = {}

\* C3 as amended: no retries are performed: the transcript service's fetch is
\* called exactly once for every entry of the requested list, in order, whether
\* that attempt fails or not, and title lookup and language enumeration are
\* called once each.  A code is therefore fetched as many times as the list
\* holds it: twice for 'en' when the input is empty and 'en' is among the
\* enumerated languages, since auto-selection builds the list as 'en' followed
\* by all enumerated languages.
FetchOncePerListEntry ==
    /\ Len(FetchCalls) <= Len(requested_languages)
    /\ \A i \in DOMAIN FetchCalls : FetchCalls[i].lang = requested_languages[i]
    /\ FetchReturned => Len(FetchCalls) = Len(requested_languages)
    /\ Cardinality({i \in DOMAIN calls : calls[i].op = "oembed"}) <= 1
    /\ Cardinality({i \in DOMAIN calls : calls[i].op = "list"}) <= 1
    /\ (pc \in {"fetch", "save"} /\ lang_input = <<>>) =>
          requested_languages = <<EN>> \o languages

\* C3 as stated: for every language code, fetch is called at most once
FetchAtMostOncePerCode ==
    \A i, j \in DOMAIN FetchCalls : FetchCalls[i].lang = FetchCalls[j].lang => i = j

\* auto-selection with en and fr enumerated has fetched en, en and fr
AutoSelectionFetchedEnTwice ==
    /\ FetchReturned
    /\ lang_input = <<>>
    /\ languages = <<EN, FR>>
    /\ [i \in DOMAIN FetchCalls |-> FetchCalls[i].lang] = <<EN, EN, FR>>


\* the pair of files of each language of the mapping: names and full contents
PairOf(c, t) ==
    [tname |-> create_filename_from_title(video_title, video_id.id, c, Timestamped),
     pname |-> create_filename_from_title(video_title, video_id.id, c, Prose),
     tcontent |-> create_timestamped_transcript(t),
     pcontent |-> create_prose_transcript(t)]
Pairs == [i \in DOMAIN transcripts |-> PairOf(transcripts[i].key, transcripts[i].value)]
FileNames == { f.name : f \in files }
HasFile(name, content) == [name |-> name, content |-> content] \in files
\* how often a line was printed
Printed(line) == Cardinality({ i \in DOMAIN stdout : stdout[i] = line })
\* the run went through the save loop to its end
SavedAll == CompletedNormally /\ LastLine.msg = "Transcript processing complete!"

\* C4 as amended: when a run of main completes normally, save_transcript_files
\* has run exactly once for every language code of the fetched-transcripts
\* mapping and no file has been written for a language that is not in the
\* mapping.  A language has its pair of files (one timestamped, one prose, with
\* the two renderings as contents) when neither write raised; a write that
\* raises is caught inside save_transcript_files, leaves that language without
\* its prose file (and, when the first write raised, without a complete
\* timestamped file), and the run still completes normally.
SavedPairsFollowWrites ==
    LET pairs == Pairs
    IN /\ FileNames \subseteq { pairs[i].tname : i \in DOMAIN pairs }
                              \cup { pairs[i].pname : i \in DOMAIN pairs }
       /\ \A f, g \in files : f.name = g.name => f = g
       /\ SavedAll =>
             \A i \in DOMAIN transcripts :
                LET c == transcripts[i].key
                    pair == pairs[i]
                    savedT == Printed(Line("Timestamped transcript saved to", pair.tname))
                    savedP == Printed(Line("Prose transcript saved to", pair.pname))
                    errors == Printed(Line("Error saving files", c))
                IN \* exactly one run of save_transcript_files for c: it ended
                   \* with the second "saved" line or with the error line
                   /\ savedP + errors = 1
                   /\ savedT <= 1
                   /\ savedP = 1 =>
                         /\ savedT = 1
                         /\ HasFile(pair.tname, pair.tcontent)
                         /\ HasFile(pair.pname, pair.pcontent)
                   /\ (errors = 1 /\ savedT = 1) =>
                         /\ HasFile(pair.tname, pair.tcontent)
                         /\ ~HasFile(pair.pname, pair.pcontent) \/ pair.pcontent = <<>>
                   /\ (errors = 1 /\ savedT = 0) =>
                         /\ pair.pname \notin FileNames
                         /\ ~HasFile(pair.tname, pair.tcontent) \/ pair.tcontent = <<>>
       /\ (CompletedNormally /\ ~SavedAll) => files = {}

\* C4 as stated: when a run completes normally, exactly one pair of files has
\* been written for every language of the mapping and none for another
\* language, whatever the outcome of the individual file writes
SavedPairForEveryLanguage ==
    CompletedNormally =>
        /\ \A i \in DOMAIN transcripts :
              /\ Pairs[i].tname \in FileNames
              /\ Pairs[i].pname \in FileNames
        /\ Cardinality(files) = 2 * Len(transcripts)

\* two languages were fetched; the files of one were saved, a write for the
\* other raised, and the run completed
SavedOnePairOfTwo ==
    /\ SavedAll
    /\ Len(transcripts) = 2
    /\ Printed(Line("Prose transcript saved to", Pairs[1].pname)) = 1
    /\ Printed(Line("Error saving files", transcripts[2].key)) = 1
    /\ Cardinality(files) \in {2, 3}

InvalidLines == { i \in DOMAIN stdout :
    stdout[i].msg \in {"Please enter a valid URL.", "Invalid YouTube URL. Please try again."} }
VideoIdLines == { i \in DOMAIN stdout : stdout[i].msg = "Video ID" }
\* the URL prompt loop has been left with an identifier
PastUrlPrompt ==
    \/ pc \in {"title", "langs", "ask", "fetch", "save"}
    \/ pc = "done" /\ VideoIdLines # {}
YieldsIdentifier(u) == u # <<>> /\ extract_video_id(u).found

\* C5: a malformed URL is re-prompted until valid: every input that is empty
\* or from which extract_video_id returns not-found leads back to the URL
\* prompt, and no remote call (title lookup, language enumeration, transcript
\* fetch) and no file write happens before an input has yielded a video
\* identifier; the first input that yields an identifier ends the prompt loop,
\* and that identifier is the one used for all later steps.
UrlRepromptedUntilValid ==
    /\ pc = "url" =>
          /\ prompts > 0 => ~YieldsIdentifier(url)
          /\ Cardinality(InvalidLines) = prompts
    /\ ~PastUrlPrompt =>
          /\ calls = <<>>
          /\ files = {}
          /\ VideoIdLines = {}
    /\ PastUrlPrompt =>
          /\ url # <<>>
          /\ video_id.found
          /\ video_id = extract_video_id(url)
          /\ Cardinality(InvalidLines) = prompts - 1
          /\ Cardinality(VideoIdLines) = 1
          /\ \A i \in VideoIdLines : stdout[i].arg = video_id.id /\ \A j \in InvalidLines : j < i
          /\ \A i \in DOMAIN calls : calls[i].video_id = video_id.id

\* an empty or malformed line was answered with a new prompt, the next line
\* gave the identifier, and the remote calls were made with it
RepromptedThenAccepted ==
    /\ prompts = 2
    /\ Cardinality(InvalidLines) = 1
    /\ url = <<"h","t","t","p","s",":","/","/","y","o","u","t","u",".","b","e","/","a","b">>
    /\ video_id = Found(<<"a","b">>)
    /\ Len(calls) >= 3
    /\ \A i \in DOMAIN calls : calls[i].video_id = <<"a","b">>

=============================================================================
